---- MODULE Spec2Model ----
(***************************************************************************)
(* A model of the push-notification boilerplate: the page script           *)
(* (client/index.js) and the service worker (client/sw.js).                *)
(*                                                                         *)
(* Every async handler is cut at its awaits: one action per segment of     *)
(* code that runs between two suspension points.  The platform (the        *)
(* Notification, ServiceWorker, Push and Cache Storage APIs, the network)  *)
(* is the environment; its answers are drawn with \E.                      *)
(***************************************************************************)
EXTENDS Integers, Sequences, FiniteSets, TLC

(* ------------------------------ bounds -------------------------------- *)

\* Handler runs (button clicks) started in one page session.
MaxRuns == 4

\* Cache generations other than the current one that may pre-exist.
MaxOldCaches == 2

\* Distinct versions of a resource the server may serve over time.
MaxVersion == 2

\* Fetch events the worker handles in one behaviour.
MaxFetches == 2

\* Push events the worker handles in one behaviour.
MaxPushes == 2

\* Length of the byte sequences given to the base64 round trip.
MaxLen == 3

(* --------------------------- client/sw.js ----------------------------- *)

VARIABLES
  swState,          \* the worker: "parsed", "installing", "installed", "redundant",
                    \* "activating", "activated"
  installPc,        \* where the install handler's promise chain is: "open", "addAll", "done"
  installPromise,   \* the promise given to event.waitUntil in install
  activatePc,       \* where the activate handler's promise chain is: "keys", "all", "done"
  activatePromise,  \* the promise given to event.waitUntil in activate
  caches,           \* Cache Storage: the caches in creation order, each a name and its entries
  pendingDeletes,   \* caches.delete(key) calls requested and not yet carried out
  serverVersion,    \* the version of the resources the network serves now
  fetches,          \* the fetch events handled so far
  precacheFailed,   \* the listed resources whose fetch failed inside cache.addAll
  pushes,           \* the data of the push events handled so far, in order
  notifications,    \* the showNotification requests made so far, in order
  windows           \* the urls given to clients.openWindow so far, in order

\* What the push and notificationclick listeners act on.
pushVars == <<pushes, notifications, windows>>

swVars == <<swState, installPc, installPromise, activatePc, activatePromise,
            caches, pendingDeletes, serverVersion, fetches, precacheFailed,
            pushVars>>

(* ------------------------- client/index.js ---------------------------- *)

VARIABLES
  scriptState,          \* "loading" until the top-level script has run, then "ran"
  supported,            \* "serviceWorker" in navigator && "PushManager" in window
  regState,             \* navigator.serviceWorker.register(): "none", "pending", "ok", "failed"
  registered,           \* the scope has a worker registration (from this or an earlier session)
  subscribeDisabled,    \* subscribeButton.disabled
  unsubscribeDisabled,  \* unsubscribeButton.disabled
  notifyMeDisabled,     \* notifyMeButton.disabled
  runs,                 \* the handler runs started so far, in click order
  activeSub,            \* the push manager's active subscription (NoSub: none)
  subCount,             \* subscriptions the push service has issued so far
  posts,                \* the fetch() POSTs issued so far, in order
  statusMessage,        \* #notification-status-message textContent
  keyBytes,             \* the bytes of an application server key
  base64String,         \* the key as text: the argument of urlB64ToUint8Array
  outputArray,          \* what urlB64ToUint8Array returned
  codecPc               \* "bytes", "encoded", "decoded", or "threw" if atob threw

\* What urlB64ToUint8Array acts on.
codecVars == <<keyBytes, base64String, outputArray, codecPc>>

pageVars == <<scriptState, supported, regState, registered, subscribeDisabled,
              unsubscribeDisabled, notifyMeDisabled, runs, activeSub,
              subCount, posts, statusMessage, codecVars>>

BASE_URL == "api.something/"

NoSub == 0

PermissionResults == {"granted", "denied", "default"}

\* The subscription object the push service issues as its n-th: an endpoint
\* and a key pair, both unique to it.
PushSubscription(n) == [endpoint |-> n, keys |-> n]

\* JSON.stringify of an object with the given fields: the ordered list of its
\* (key, value) pairs.
JSONStringify(keys, obj) == [i \in 1..Len(keys) |-> <<keys[i], obj[keys[i]]>>]

\* JSON.stringify(subscription): PushSubscription.toJSON gives endpoint and keys.
SubscriptionJSON(n) == JSONStringify(<<"endpoint", "keys">>, PushSubscription(n))

\* JSON.stringify({ endpoint: subscription.endpoint })
EndpointJSON(n) == JSONStringify(<<"endpoint">>, [endpoint |-> PushSubscription(n).endpoint])

NoBody == <<>>

\* fetch(url, {method: "POST", body}) issued by run r; the request is in
\* flight until the network settles it.
Post(path, body, r) == [url |-> BASE_URL \o path, body |-> body, run |-> r, state |-> "pending"]

\* A handler run: which handler, where it is suspended, the subscription
\* object it holds, and the platform calls and effects it has made, in order.
NewRun(kind, pc, log) == [kind |-> kind, pc |-> pc, held |-> NoSub, log |-> log]

RunIds == 1..Len(runs)

At(r, kind, pc) == runs[r].kind = kind /\ runs[r].pc = pc

\* The run r resumes: it moves to pc and appends log to what it has done.
Step(r, pc, log) == [runs EXCEPT ![r].pc = pc, ![r].log = @ \o log]

\* navigator.serviceWorker.getRegistration() resolves to the registration
\* when one exists, to undefined otherwise.
HasRegistration == registered

\* The page's markup as loaded: the subscribe, unsubscribe and notify-me
\* buttons start disabled (the pre-subscription defaults, before the script
\* enables subscribe) and the status message is empty.
InitialMarkup ==
  /\ subscribeDisabled = TRUE
  /\ unsubscribeDisabled = TRUE
  /\ notifyMeDisabled = TRUE
  /\ statusMessage = ""

\* The page before its script runs.  Whether the platform supports workers
\* and push, and whether the browser profile still holds a registration, and
\* with it a subscription, from an earlier session, are the environment's.
InitPage ==
  /\ InitialMarkup
  /\ scriptState = "loading"
  /\ supported \in BOOLEAN
  /\ regState = "none"
  /\ registered \in BOOLEAN
  /\ runs = <<>>
  /\ activeSub \in IF registered THEN {NoSub, 1} ELSE {NoSub}
  /\ subCount = activeSub
  /\ posts = <<>>

\* index.js 38-52: the top-level script.  register() is started and the
\* subscribe button is enabled in the same synchronous block.
RegisterBlock ==
  /\ scriptState = "loading"
  /\ scriptState' = "ran"
  /\ IF supported
       THEN /\ regState' = "pending"
            /\ subscribeDisabled' = FALSE
       ELSE UNCHANGED <<regState, subscribeDisabled>>
  /\ UNCHANGED <<swVars, codecVars>>
  /\ UNCHANGED <<supported, registered, unsubscribeDisabled, notifyMeDisabled,
                 runs, activeSub, subCount, posts, statusMessage>>

\* register("./sw.js") settles: .then logs, .catch logs.  On success the
\* scope has a registration, if it had none.
RegisterSettle(ok) ==
  /\ regState = "pending"
  /\ regState' = IF ok THEN "ok" ELSE "failed"
  /\ registered' = (registered \/ ok)
  /\ UNCHANGED <<swVars, codecVars>>
  /\ UNCHANGED <<scriptState, supported, subscribeDisabled, unsubscribeDisabled,
                 notifyMeDisabled, runs, activeSub, subCount, posts, statusMessage>>

(* subscribeButtonHandler, index.js 70-112 *)

\* SubscribeClick without line 72: the button stays enabled.
SubscribeClickNoDisable ==
  /\ scriptState = "ran"
  /\ ~subscribeDisabled
  /\ Len(runs) < MaxRuns
  /\ runs' = Append(runs, NewRun("subscribe", "permission", <<"requestPermission">>))
  /\ UNCHANGED <<swVars, codecVars>>
  /\ UNCHANGED <<scriptState, supported, regState, registered, subscribeDisabled, unsubscribeDisabled,
                 notifyMeDisabled, activeSub, subCount, posts, statusMessage>>

\* 70-74: click on the enabled subscribe button; runs to the first await.
SubscribeClick ==
  /\ scriptState = "ran"
  /\ ~subscribeDisabled
  /\ Len(runs) < MaxRuns
  /\ subscribeDisabled' = TRUE
  /\ runs' = Append(runs, NewRun("subscribe", "permission",
                                 <<"subscribe.disable", "requestPermission">>))
  /\ UNCHANGED <<swVars, codecVars>>
  /\ UNCHANGED <<scriptState, supported, regState, registered, unsubscribeDisabled,
                 notifyMeDisabled, activeSub, subCount, posts, statusMessage>>

\* SubscribePermission without the return of line 77: a denied run goes on.
SubscribePermissionNoReturn(r, result) ==
  /\ At(r, "subscribe", "permission")
  /\ runs' = Step(r, "getRegistration", <<"permission:" \o result, "getRegistration">>)
  /\ UNCHANGED <<swVars, codecVars>>
  /\ UNCHANGED <<scriptState, supported, regState, registered, subscribeDisabled,
                 unsubscribeDisabled, notifyMeDisabled, activeSub, subCount,
                 posts, statusMessage>>

\* 74-83: Notification.requestPermission() resolves to result.
SubscribePermission(r, result) ==
  /\ At(r, "subscribe", "permission")
  /\ runs' = IF result = "denied"
               THEN Step(r, "returned", <<"permission:" \o result>>)
               ELSE Step(r, "getRegistration", <<"permission:" \o result, "getRegistration">>)
  /\ UNCHANGED <<swVars, codecVars>>
  /\ UNCHANGED <<scriptState, supported, regState, registered, subscribeDisabled,
                 unsubscribeDisabled, notifyMeDisabled, activeSub, subCount,
                 posts, statusMessage>>

\* 83-87: getRegistration() resolves; registration.pushManager throws a
\* TypeError when it resolved to undefined.
SubscribeGetRegistration(r) ==
  /\ At(r, "subscribe", "getRegistration")
  /\ runs' = IF HasRegistration
               THEN Step(r, "getSubscription", <<"getSubscription">>)
               ELSE Step(r, "failed", <<"TypeError">>)
  /\ UNCHANGED <<swVars, codecVars>>
  /\ UNCHANGED <<scriptState, supported, regState, registered, subscribeDisabled,
                 unsubscribeDisabled, notifyMeDisabled, activeSub, subCount,
                 posts, statusMessage>>

\* SubscribeGetSubscription without the return of line 92: an already
\* subscribed run goes on to pushManager.subscribe.
SubscribeGetSubscriptionNoReturn(r) ==
  /\ At(r, "subscribe", "getSubscription")
  /\ IF activeSub # NoSub
       THEN /\ notifyMeDisabled' = FALSE
            /\ unsubscribeDisabled' = FALSE
            /\ runs' = [Step(r, "subscribe",
                             <<"subscribed", "notifyMe.enable", "unsubscribe.enable", "subscribe">>)
                          EXCEPT ![r].held = activeSub]
       ELSE /\ runs' = Step(r, "subscribe", <<"subscribe">>)
            /\ UNCHANGED <<notifyMeDisabled, unsubscribeDisabled>>
  /\ UNCHANGED <<swVars, codecVars>>
  /\ UNCHANGED <<scriptState, supported, regState, registered, subscribeDisabled,
                 activeSub, subCount, posts, statusMessage>>

\* 87-101: getSubscription() resolves to the active subscription or null.
SubscribeGetSubscription(r) ==
  /\ At(r, "subscribe", "getSubscription")
  /\ IF activeSub # NoSub
       THEN /\ notifyMeDisabled' = FALSE
            /\ unsubscribeDisabled' = FALSE
            /\ runs' = [Step(r, "returned",
                             <<"subscribed", "notifyMe.enable", "unsubscribe.enable">>)
                          EXCEPT ![r].held = activeSub]
       ELSE /\ runs' = Step(r, "subscribe", <<"subscribe">>)
            /\ UNCHANGED <<notifyMeDisabled, unsubscribeDisabled>>
  /\ UNCHANGED <<swVars, codecVars>>
  /\ UNCHANGED <<scriptState, supported, regState, registered, subscribeDisabled,
                 activeSub, subCount, posts, statusMessage>>

\* The subscription pushManager.subscribe() resolves with: the active one
\* when there is one, else a new one issued by the push service.
Subscribed == IF activeSub # NoSub THEN activeSub ELSE subCount + 1

\* SubscribeSettle with lines 102-111 in a finally block: notify-me is
\* enabled and the POST issued when subscribe rejects too.
SubscribeSettleFinally(r, ok) ==
  /\ At(r, "subscribe", "subscribe")
  /\ IF ok
       THEN /\ activeSub' = Subscribed
            /\ subCount' = IF activeSub # NoSub THEN subCount ELSE subCount + 1
            /\ runs' = [Step(r, "returned",
                             <<"subscribe:resolved", "notifyMe.enable", "POST">>)
                          EXCEPT ![r].held = Subscribed]
            /\ posts' = Append(posts, Post("/add-subscription",
                                           SubscriptionJSON(Subscribed), r))
       ELSE /\ runs' = Step(r, "failed", <<"subscribe:rejected", "notifyMe.enable", "POST">>)
            /\ posts' = Append(posts, Post("/add-subscription", NoBody, r))
            /\ UNCHANGED <<activeSub, subCount>>
  /\ notifyMeDisabled' = FALSE
  /\ UNCHANGED <<swVars, codecVars>>
  /\ UNCHANGED <<scriptState, supported, regState, registered, subscribeDisabled,
                 unsubscribeDisabled, statusMessage>>

\* 95-112: pushManager.subscribe() resolves (ok) or rejects.
SubscribeSettle(r, ok) ==
  /\ At(r, "subscribe", "subscribe")
  /\ IF ok
       THEN /\ activeSub' = Subscribed
            /\ subCount' = IF activeSub # NoSub THEN subCount ELSE subCount + 1
            /\ notifyMeDisabled' = FALSE
            /\ posts' = Append(posts, Post("/add-subscription",
                                           SubscriptionJSON(Subscribed), r))
            /\ runs' = [Step(r, "returned",
                             <<"subscribe:resolved", "notifyMe.enable", "POST">>)
                          EXCEPT ![r].held = Subscribed]
       ELSE /\ runs' = Step(r, "failed", <<"subscribe:rejected">>)
            /\ UNCHANGED <<activeSub, subCount, notifyMeDisabled, posts>>
  /\ UNCHANGED <<swVars, codecVars>>
  /\ UNCHANGED <<scriptState, supported, regState, registered, subscribeDisabled,
                 unsubscribeDisabled, statusMessage>>

(* unsubscribeButtonHandler, index.js 115-136 *)

\* 115-117: click on the enabled unsubscribe button.
UnsubscribeClick ==
  /\ scriptState = "ran"
  /\ ~unsubscribeDisabled
  /\ Len(runs) < MaxRuns
  /\ runs' = Append(runs, NewRun("unsubscribe", "getRegistration", <<"getRegistration">>))
  /\ UNCHANGED <<swVars, codecVars>>
  /\ UNCHANGED <<scriptState, supported, regState, registered, subscribeDisabled,
                 unsubscribeDisabled, notifyMeDisabled, activeSub, subCount,
                 posts, statusMessage>>

\* 117-120
UnsubscribeGetRegistration(r) ==
  /\ At(r, "unsubscribe", "getRegistration")
  /\ runs' = IF HasRegistration
               THEN Step(r, "getSubscription", <<"getSubscription">>)
               ELSE Step(r, "failed", <<"TypeError">>)
  /\ UNCHANGED <<swVars, codecVars>>
  /\ UNCHANGED <<scriptState, supported, regState, registered, subscribeDisabled,
                 unsubscribeDisabled, notifyMeDisabled, activeSub, subCount,
                 posts, statusMessage>>

\* UnsubscribeGetSubscription reading the endpoint with optional chaining
\* (subscription?.endpoint): on null the POST is issued and the run fails
\* one line later, at subscription.unsubscribe().
UnsubscribeGetSubscriptionUnguarded(r) ==
  /\ At(r, "unsubscribe", "getSubscription")
  /\ IF activeSub # NoSub
       THEN /\ posts' = Append(posts, Post("/remove-subscription", EndpointJSON(activeSub), r))
            /\ runs' = [Step(r, "unsubscribe", <<"POST", "unsubscribe">>)
                          EXCEPT ![r].held = activeSub]
       ELSE /\ posts' = Append(posts, Post("/remove-subscription", NoBody, r))
            /\ runs' = Step(r, "failed", <<"POST", "TypeError">>)
  /\ UNCHANGED <<swVars, codecVars>>
  /\ UNCHANGED <<scriptState, supported, regState, registered, subscribeDisabled,
                 unsubscribeDisabled, notifyMeDisabled, activeSub, subCount,
                 statusMessage>>

\* 120-129: getSubscription() resolves.  The argument of fetch() reads
\* subscription.endpoint, which throws on null before fetch is called.
UnsubscribeGetSubscription(r) ==
  /\ At(r, "unsubscribe", "getSubscription")
  /\ IF activeSub # NoSub
       THEN /\ posts' = Append(posts, Post("/remove-subscription", EndpointJSON(activeSub), r))
            /\ runs' = [Step(r, "unsubscribe", <<"POST", "unsubscribe">>)
                          EXCEPT ![r].held = activeSub]
       ELSE /\ runs' = Step(r, "failed", <<"TypeError">>)
            /\ UNCHANGED posts
  /\ UNCHANGED <<swVars, codecVars>>
  /\ UNCHANGED <<scriptState, supported, regState, registered, subscribeDisabled,
                 unsubscribeDisabled, notifyMeDisabled, activeSub, subCount,
                 statusMessage>>

\* What subscription.unsubscribe() may settle to: false when the subscription
\* held is no longer the active one (already deactivated); true, or a
\* rejection (the push service could not be reached), when it is.
UnsubscribeOutcomes(r) ==
  IF runs[r].held = activeSub THEN {"true", "rejected"} ELSE {"false"}

\* UnsubscribeSettle without the test of line 130: the buttons are reset
\* whatever unsubscribe() resolved to.
UnsubscribeSettleUnconditional(r, outcome) ==
  /\ At(r, "unsubscribe", "unsubscribe")
  /\ outcome \in UnsubscribeOutcomes(r)
  /\ activeSub' = IF outcome = "true" THEN NoSub ELSE activeSub
  /\ IF outcome = "rejected"
       THEN /\ runs' = Step(r, "failed", <<"unsubscribe:rejected">>)
            /\ UNCHANGED <<unsubscribeDisabled, subscribeDisabled, notifyMeDisabled>>
       ELSE /\ unsubscribeDisabled' = TRUE
            /\ subscribeDisabled' = FALSE
            /\ notifyMeDisabled' = TRUE
            /\ runs' = Step(r, "returned",
                            <<"unsubscribe:" \o outcome, "unsubscribe.disable",
                              "subscribe.enable", "notifyMe.disable">>)
  /\ UNCHANGED <<swVars, codecVars>>
  /\ UNCHANGED <<scriptState, supported, regState, registered, subCount, posts, statusMessage>>

\* A handler without line 134: a successful unsubscribe leaves the notify-me
\* button as it is.
UnsubscribeSettleKeepsNotifyMe(r, outcome) ==
  /\ At(r, "unsubscribe", "unsubscribe")
  /\ outcome \in UnsubscribeOutcomes(r)
  /\ IF outcome = "true"
       THEN /\ activeSub' = NoSub
            /\ unsubscribeDisabled' = TRUE
            /\ subscribeDisabled' = FALSE
            /\ runs' = Step(r, "returned",
                            <<"unsubscribe:true", "unsubscribe.disable",
                              "subscribe.enable">>)
       ELSE /\ runs' = Step(r, IF outcome = "false" THEN "returned" ELSE "failed",
                            <<"unsubscribe:" \o outcome>>)
            /\ UNCHANGED <<activeSub, unsubscribeDisabled, subscribeDisabled>>
  /\ UNCHANGED notifyMeDisabled
  /\ UNCHANGED <<swVars, codecVars>>
  /\ UNCHANGED <<scriptState, supported, regState, registered, subCount, posts, statusMessage>>

\* 129-136: subscription.unsubscribe() settles.
UnsubscribeSettle(r, outcome) ==
  /\ At(r, "unsubscribe", "unsubscribe")
  /\ outcome \in UnsubscribeOutcomes(r)
  /\ IF outcome = "true"
       THEN /\ activeSub' = NoSub
            /\ unsubscribeDisabled' = TRUE
            /\ subscribeDisabled' = FALSE
            /\ notifyMeDisabled' = TRUE
            /\ runs' = Step(r, "returned",
                            <<"unsubscribe:true", "unsubscribe.disable",
                              "subscribe.enable", "notifyMe.disable">>)
       ELSE /\ runs' = Step(r, IF outcome = "false" THEN "returned" ELSE "failed",
                            <<"unsubscribe:" \o outcome>>)
            /\ UNCHANGED <<activeSub, unsubscribeDisabled, subscribeDisabled,
                           notifyMeDisabled>>
  /\ UNCHANGED <<swVars, codecVars>>
  /\ UNCHANGED <<scriptState, supported, regState, registered, subCount, posts, statusMessage>>

(* notify-me click listener, index.js 140-151 *)

NotifyMeClick ==
  /\ scriptState = "ran"
  /\ ~notifyMeDisabled
  /\ Len(runs) < MaxRuns
  /\ runs' = Append(runs, NewRun("notifyMe", "getRegistration", <<"getRegistration">>))
  /\ UNCHANGED <<swVars, codecVars>>
  /\ UNCHANGED <<scriptState, supported, regState, registered, subscribeDisabled,
                 unsubscribeDisabled, notifyMeDisabled, activeSub, subCount,
                 posts, statusMessage>>

NotifyMeGetRegistration(r) ==
  /\ At(r, "notifyMe", "getRegistration")
  /\ runs' = IF HasRegistration
               THEN Step(r, "getSubscription", <<"getSubscription">>)
               ELSE Step(r, "failed", <<"TypeError">>)
  /\ UNCHANGED <<swVars, codecVars>>
  /\ UNCHANGED <<scriptState, supported, regState, registered, subscribeDisabled,
                 unsubscribeDisabled, notifyMeDisabled, activeSub, subCount,
                 posts, statusMessage>>

NotifyMeGetSubscription(r) ==
  /\ At(r, "notifyMe", "getSubscription")
  /\ IF activeSub # NoSub
       THEN /\ posts' = Append(posts, Post("/notify-me", EndpointJSON(activeSub), r))
            /\ runs' = [Step(r, "returned", <<"POST">>) EXCEPT ![r].held = activeSub]
       ELSE /\ runs' = Step(r, "failed", <<"TypeError">>)
            /\ UNCHANGED posts
  /\ UNCHANGED <<swVars, codecVars>>
  /\ UNCHANGED <<scriptState, supported, regState, registered, subscribeDisabled,
                 unsubscribeDisabled, notifyMeDisabled, activeSub, subCount,
                 statusMessage>>

(* notify-all click listener, index.js 153-162 *)

\* The HTTP statuses the server answers /notify-all with: accepted, or no
\* subscribed endpoints.
Statuses == {200, 409}

NoRecipientsMessage == "There are no subscribed endpoints to send messages to, yet."

\* 153-157: the notify-all button is never disabled; the POST has no body.
NotifyAllClick ==
  /\ scriptState = "ran"
  /\ Len(runs) < MaxRuns
  /\ runs' = Append(runs, NewRun("notifyAll", "fetch", <<"POST">>))
  /\ posts' = Append(posts, Post("/notify-all", NoBody, Len(runs) + 1))
  /\ UNCHANGED <<swVars, codecVars>>
  /\ UNCHANGED <<scriptState, supported, regState, registered, subscribeDisabled,
                 unsubscribeDisabled, notifyMeDisabled, activeSub, subCount,
                 statusMessage>>

\* The index in posts of the POST that run r issued.
PostOf(r) == CHOOSE i \in 1..Len(posts) : posts[i].run = r

\* A handler that clears the message on every status other than 409.
NotifyAllResponseClears(r, status) ==
  /\ At(r, "notifyAll", "fetch")
  /\ posts' = [posts EXCEPT ![PostOf(r)].state = "ok"]
  /\ runs' = Step(r, "returned", <<"status:" \o ToString(status)>>)
  /\ statusMessage' = IF status = 409 THEN NoRecipientsMessage ELSE ""
  /\ UNCHANGED <<swVars, codecVars>>
  /\ UNCHANGED <<scriptState, supported, regState, registered, subscribeDisabled,
                 unsubscribeDisabled, notifyMeDisabled, activeSub, subCount>>

\* 155-162: the awaited fetch resolves with an HTTP status.
NotifyAllResponse(r, status) ==
  /\ At(r, "notifyAll", "fetch")
  /\ posts' = [posts EXCEPT ![PostOf(r)].state = "ok"]
  /\ runs' = Step(r, "returned", <<"status:" \o ToString(status)>>)
  /\ statusMessage' = IF status = 409 THEN NoRecipientsMessage ELSE statusMessage
  /\ UNCHANGED <<swVars, codecVars>>
  /\ UNCHANGED <<scriptState, supported, regState, registered, subscribeDisabled,
                 unsubscribeDisabled, notifyMeDisabled, activeSub, subCount>>

\* 155: the awaited fetch rejects (network failure); the handler fails.
NotifyAllReject(r) ==
  /\ At(r, "notifyAll", "fetch")
  /\ posts' = [posts EXCEPT ![PostOf(r)].state = "failed"]
  /\ runs' = Step(r, "failed", <<"fetch:rejected">>)
  /\ UNCHANGED <<swVars, codecVars>>
  /\ UNCHANGED <<scriptState, supported, regState, registered, subscribeDisabled,
                 unsubscribeDisabled, notifyMeDisabled, activeSub, subCount,
                 statusMessage>>

\* 105-111: the POST to /add-subscription settles.  fetch() is not awaited
\* and its promise is dropped, so no code runs on either outcome.  (The
\* POSTs of the unsubscribe and notify-me handlers are dropped the same way;
\* their outcome is left out of the record.)
PostSettle(i, ok) ==
  /\ i \in 1..Len(posts)
  /\ posts[i].state = "pending"
  /\ runs[posts[i].run].kind = "subscribe"
  /\ posts' = [posts EXCEPT ![i].state = IF ok THEN "ok" ELSE "failed"]
  /\ UNCHANGED <<swVars, codecVars>>
  /\ UNCHANGED <<scriptState, supported, regState, registered, subscribeDisabled,
                 unsubscribeDisabled, notifyMeDisabled, runs, activeSub,
                 subCount, statusMessage>>

NextPage ==
  \/ RegisterBlock
  \/ \E ok \in BOOLEAN : RegisterSettle(ok)
  \/ SubscribeClick
  \/ \E r \in RunIds, result \in PermissionResults : SubscribePermission(r, result)
  \/ \E r \in RunIds : SubscribeGetRegistration(r)
  \/ \E r \in RunIds : SubscribeGetSubscription(r)
  \/ \E r \in RunIds, ok \in BOOLEAN : SubscribeSettle(r, ok)
  \/ UnsubscribeClick
  \/ \E r \in RunIds : UnsubscribeGetRegistration(r)
  \/ \E r \in RunIds : UnsubscribeGetSubscription(r)
  \/ \E r \in RunIds, outcome \in {"true", "false", "rejected"} : UnsubscribeSettle(r, outcome)
  \/ NotifyMeClick
  \/ \E r \in RunIds : NotifyMeGetRegistration(r)
  \/ \E r \in RunIds : NotifyMeGetSubscription(r)
  \/ NotifyAllClick
  \/ \E r \in RunIds, status \in Statuses : NotifyAllResponse(r, status)
  \/ \E r \in RunIds : NotifyAllReject(r)
  \/ \E i \in 1..Len(posts), ok \in BOOLEAN : PostSettle(i, ok)

(* urlB64ToUint8Array, index.js 23-34 *)

\* Text is a sequence of characters, a character a string of length one.

\* The base64 alphabet window.atob reads, in the order of the values 0..63.
Base64Alphabet ==
  <<     "A", "B", "C", "D", "E", "F", "G", "H", "I", "J", "K", "L", "M", "N", "O", "P",
     "Q", "R", "S", "T", "U", "V", "W", "X", "Y", "Z", "a", "b", "c", "d", "e", "f",
     "g", "h", "i", "j", "k", "l", "m", "n", "o", "p", "q", "r", "s", "t", "u", "v",
     "w", "x", "y", "z", "0", "1", "2", "3", "4", "5", "6", "7", "8", "9", "+", "/">>

\* The URL-safe alphabet: "-" and "_" in the places of "+" and "/".
Base64UrlAlphabet ==
  <<     "A", "B", "C", "D", "E", "F", "G", "H", "I", "J", "K", "L", "M", "N", "O", "P",
     "Q", "R", "S", "T", "U", "V", "W", "X", "Y", "Z", "a", "b", "c", "d", "e", "f",
     "g", "h", "i", "j", "k", "l", "m", "n", "o", "p", "q", "r", "s", "t", "u", "v",
     "w", "x", "y", "z", "0", "1", "2", "3", "4", "5", "6", "7", "8", "9", "-", "_">>

\* Byte values the round trip is run on; between them their sextets take the
\* values 62 and 63 ("-" and "_") in every place of a group.
ByteValues == {0, 1, 62, 63, 65, 127, 128, 190, 239, 251, 254, 255}

KeyByteSequences == UNION {[1..n -> ByteValues] : n \in 0..MaxLen}

\* URL-safe base64 of a byte sequence, without padding: every three bytes
\* give four characters, a last group of two bytes gives three and a last
\* single byte gives two.
RECURSIVE Base64UrlEncode(_)
Base64UrlEncode(bytes) ==
  LET a == Base64UrlAlphabet
  IN  CASE Len(bytes) = 0 -> <<>>
        [] Len(bytes) = 1 ->
             <<a[(bytes[1] \div 4) + 1], a[(bytes[1] % 4) * 16 + 1]>>
        [] Len(bytes) = 2 ->
             <<a[(bytes[1] \div 4) + 1],
               a[(bytes[1] % 4) * 16 + (bytes[2] \div 16) + 1],
               a[(bytes[2] % 16) * 4 + 1]>>
        [] OTHER ->
             <<a[(bytes[1] \div 4) + 1],
               a[(bytes[1] % 4) * 16 + (bytes[2] \div 16) + 1],
               a[(bytes[2] % 16) * 4 + (bytes[3] \div 64) + 1],
               a[(bytes[3] % 64) + 1]>>
             \o Base64UrlEncode(SubSeq(bytes, 4, Len(bytes)))

\* "=".repeat(n)
Repeat(char, n) == [i \in 1..n |-> char]

\* String.replace(/from/g, to)
Replace(str, from, to) == [i \in 1..Len(str) |-> IF str[i] = from THEN to ELSE str[i]]

\* The value 0..63 of a character of the base64 alphabet.
Sextet(char) == (CHOOSE k \in 1..64 : Base64Alphabet[k] = char) - 1

\* The bytes a run of sextets carries: four give three bytes; of a last
\* group, three give two bytes and two give one, the left-over bits dropped.
RECURSIVE SextetBytes(_)
SextetBytes(q) ==
  CASE Len(q) = 0 -> <<>>
    [] Len(q) = 2 -> <<q[1] * 4 + (q[2] \div 16)>>
    [] Len(q) = 3 -> <<q[1] * 4 + (q[2] \div 16),
                       (q[2] % 16) * 16 + (q[3] \div 4)>>
    [] OTHER -> <<q[1] * 4 + (q[2] \div 16),
                  (q[2] % 16) * 16 + (q[3] \div 4),
                  (q[3] % 4) * 64 + q[4]>>
                \o SextetBytes(SubSeq(q, 5, Len(q)))

\* window.atob(str): with a length that is a multiple of 4, up to two "="
\* at the end are dropped; what is left must not have a length of 1 modulo 4
\* and must consist of alphabet characters, or atob throws.  The result is a
\* string with one character per byte, given here by its code points.
Atob(str) ==
  LET n == Len(str)
      pad == IF n % 4 # 0 \/ n = 0 THEN 0
             ELSE IF str[n] # "=" THEN 0
             ELSE IF str[n - 1] # "=" THEN 1 ELSE 2
      data == SubSeq(str, 1, n - pad)
  IN  IF \/ Len(data) % 4 = 1
         \/ \E i \in 1..Len(data) : \A k \in 1..64 : Base64Alphabet[k] # data[i]
        THEN [threw |-> TRUE, codes |-> <<>>]
        ELSE [threw |-> FALSE,
              codes |-> SextetBytes([i \in 1..Len(data) |-> Sextet(data[i])])]

\* A conversion that replaces "-" and leaves "_" as it is.
urlB64ToUint8ArrayDashOnly(str) ==
  LET padding == Repeat("=", (4 - (Len(str) % 4)) % 4)
      base64 == Replace(str \o padding, "-", "+")
      rawData == Atob(base64)
  IN  [threw |-> rawData.threw,
       array |-> [i \in 1..Len(rawData.codes) |-> rawData.codes[i]]]

\* 23-34: the padding, the two replacements, atob, and the array filled with
\* rawData.charCodeAt(i).
urlB64ToUint8Array(str) ==
  LET padding == Repeat("=", (4 - (Len(str) % 4)) % 4)
      base64 == Replace(Replace(str \o padding, "-", "+"), "_", "/")
      rawData == Atob(base64)
  IN  [threw |-> rawData.threw,
       array |-> [i \in 1..Len(rawData.codes) |-> rawData.codes[i]]]

\* A key of up to MaxLen bytes, not yet written as text.
InitCodec ==
  /\ keyBytes \in KeyByteSequences
  /\ base64String = <<>>
  /\ outputArray = <<>>
  /\ codecPc = "bytes"

\* The key is written as URL-safe base64 without padding, the form in which
\* it is pasted into VAPID_PUBLIC_KEY.
KeyEncode ==
  /\ codecPc = "bytes"
  /\ base64String' = Base64UrlEncode(keyBytes)
  /\ codecPc' = "encoded"
  /\ UNCHANGED <<keyBytes, outputArray>>
  /\ UNCHANGED swVars
  /\ UNCHANGED <<scriptState, supported, regState, registered, subscribeDisabled,
                 unsubscribeDisabled, notifyMeDisabled, runs, activeSub,
                 subCount, posts, statusMessage>>

\* 99: urlB64ToUint8Array is called with the key.
KeyDecode ==
  /\ codecPc = "encoded"
  /\ LET result == urlB64ToUint8Array(base64String)
     IN  IF result.threw
           THEN /\ codecPc' = "threw"
                /\ UNCHANGED outputArray
           ELSE /\ codecPc' = "decoded"
                /\ outputArray' = result.array
  /\ UNCHANGED <<keyBytes, base64String>>
  /\ UNCHANGED swVars
  /\ UNCHANGED <<scriptState, supported, regState, registered, subscribeDisabled,
                 unsubscribeDisabled, notifyMeDisabled, runs, activeSub,
                 subCount, posts, statusMessage>>

NextCodec ==
  \/ KeyEncode
  \/ KeyDecode

\* urlB64ToUint8Array has not been called.
IdleCodec ==
  /\ keyBytes = <<>>
  /\ base64String = <<>>
  /\ outputArray = <<>>
  /\ codecPc = "none"

(* --------------------------- client/sw.js ----------------------------- *)

cacheName == "cache-v1"

resourcesToPrecache == <<"/", "./index.html", "./index.js">>

Range(seq) == {seq[i] : i \in 1..Len(seq)}

\* Names of cache generations left by earlier deployments of the worker.
OldNames == <<"cache-v0", "cache-old-a", "cache-old-b", "cache-old-c">>

\* The names Cache Storage may hold when the worker starts, in creation order.
PreNames == SubSeq(OldNames, 1, MaxOldCaches) \o <<cacheName>>

\* Resources an earlier deployment may have cached: one still in the
\* precache list, one no longer in it (sw.js line 6).
PreUrls == {"./index.html", "./src/index.css"}

\* The requests a controlled page makes.
RequestUrls == {"./index.html", "./src/index.css"}

\* The version earlier deployments cached; the server serves 1..MaxVersion.
OldVersion == 0

\* A response: the resource and the version of its body.
Response(url, version) == [url |-> url, body |-> version]

\* No response (null / undefined).
NoResponse == [url |-> "", body |-> -1]

\* The Cache Storage holding, of PreNames, the caches sel marks present, each
\* with the OldVersion entries sel gives it.
PreCaches(sel) ==
  LET all == [i \in 1..Len(PreNames) |->
                [name |-> PreNames[i],
                 entries |-> [u \in sel[i].urls |-> OldVersion],
                 present |-> sel[i].present]]
      kept == SelectSeq(all, LAMBDA c : c.present)
  IN  [i \in 1..Len(kept) |-> [name |-> kept[i].name, entries |-> kept[i].entries]]

PreSelections ==
  [1..Len(PreNames) -> {[present |-> FALSE, urls |-> {}]}
                        \cup [present : {TRUE}, urls : SUBSET PreUrls]]

CacheNames == {caches[i].name : i \in 1..Len(caches)}

\* caches.has(name)
Has(name) == name \in CacheNames

IndexOf(name) == CHOOSE i \in 1..Len(caches) : caches[i].name = name

\* The entries (request url -> cached version) of the cache called name.
Entries(name) == caches[IndexOf(name)].entries

InitSW ==
  /\ swState = "parsed"
  /\ installPc = "none"
  /\ installPromise = "none"
  /\ activatePc = "none"
  /\ activatePromise = "none"
  /\ caches \in {PreCaches(sel) : sel \in PreSelections}
  /\ pendingDeletes = {}
  /\ serverVersion = 1
  /\ fetches = <<>>
  /\ precacheFailed = {}
  /\ pushes = <<>>
  /\ notifications = <<>>
  /\ windows = <<>>

\* The server deploys a new version of the resources.
ServerUpdate ==
  /\ serverVersion < MaxVersion
  /\ serverVersion' = serverVersion + 1
  /\ UNCHANGED <<pageVars, precacheFailed, pushVars>>
  /\ UNCHANGED <<swState, installPc, installPromise, activatePc, activatePromise,
                 caches, pendingDeletes, fetches>>

(* install listener, sw.js 12-19 *)

\* 12-15: the install event; caches.open(cacheName) is called and its chain
\* handed to waitUntil.
InstallEvent ==
  /\ swState = "parsed"
  /\ swState' = "installing"
  /\ installPc' = "open"
  /\ installPromise' = "pending"
  /\ UNCHANGED <<pageVars, precacheFailed, pushVars>>
  /\ UNCHANGED <<activatePc, activatePromise, caches, pendingDeletes,
                 serverVersion, fetches>>

\* caches.open(name): the cache of that name, created empty when absent.
Open(name) ==
  IF Has(name) THEN caches ELSE Append(caches, [name |-> name, entries |-> <<>>])

\* 15-16: caches.open resolves; cache.addAll(resourcesToPrecache) is called.
InstallOpen ==
  /\ swState = "installing"
  /\ installPc = "open"
  /\ caches' = Open(cacheName)
  /\ installPc' = "addAll"
  /\ UNCHANGED <<pageVars, precacheFailed, pushVars>>
  /\ UNCHANGED <<swState, installPromise, activatePc, activatePromise,
                 pendingDeletes, serverVersion, fetches>>

\* AddAll as cache.add(urls[0]): only the first resource is fetched and put.
AddFirst(entries, urls) ==
  [u \in DOMAIN entries \cup {urls[1]} |->
     IF u = urls[1] THEN serverVersion ELSE entries[u]]

\* cache.addAll(urls) with every fetch successful: each url is put with the
\* response fetched, replacing an entry for the same url; other entries stay.
AddAll(entries, urls) ==
  [u \in DOMAIN entries \cup Range(urls) |->
     IF u \in Range(urls) THEN serverVersion ELSE entries[u]]

\* An addAll that is not atomic: it puts every response it fetched, and
\* rejects if a fetch failed.
InstallAddAllPartial(failed) ==
  /\ swState = "installing"
  /\ installPc = "addAll"
  /\ failed \subseteq Range(resourcesToPrecache)
  /\ installPc' = "done"
  /\ caches' = [caches EXCEPT ![IndexOf(cacheName)].entries =
                  [u \in DOMAIN @ \cup (Range(resourcesToPrecache) \ failed) |->
                     IF u \in Range(resourcesToPrecache) \ failed
                       THEN serverVersion ELSE @[u]]]
  /\ IF failed = {}
       THEN /\ installPromise' = "fulfilled"
            /\ swState' = "installed"
       ELSE /\ installPromise' = "rejected"
            /\ swState' = "redundant"
  /\ precacheFailed' = failed
  /\ UNCHANGED <<pageVars, pushVars>>
  /\ UNCHANGED <<activatePc, activatePromise, pendingDeletes, serverVersion, fetches>>

\* 16-18: addAll settles.  failed is the set of listed resources whose fetch
\* failed; addAll rejects, having put nothing, unless it is empty.
InstallAddAll(failed) ==
  /\ swState = "installing"
  /\ installPc = "addAll"
  /\ failed \subseteq Range(resourcesToPrecache)
  /\ installPc' = "done"
  /\ IF failed = {}
       THEN /\ caches' = [caches EXCEPT ![IndexOf(cacheName)].entries =
                                           AddAll(@, resourcesToPrecache)]
            /\ installPromise' = "fulfilled"
            /\ swState' = "installed"
       ELSE /\ installPromise' = "rejected"
            /\ swState' = "redundant"
            /\ UNCHANGED caches
  /\ precacheFailed' = failed
  /\ UNCHANGED <<pageVars, pushVars>>
  /\ UNCHANGED <<activatePc, activatePromise, pendingDeletes, serverVersion, fetches>>

(* activate listener, sw.js 25-38 *)

\* 25-27: the activate event; caches.keys() is called and its chain handed
\* to waitUntil.
ActivateEvent ==
  /\ swState = "installed"
  /\ swState' = "activating"
  /\ activatePc' = "keys"
  /\ activatePromise' = "pending"
  /\ UNCHANGED <<pageVars, precacheFailed, pushVars>>
  /\ UNCHANGED <<installPc, installPromise, caches, pendingDeletes,
                 serverVersion, fetches>>

\* 29-30: keys.filter((key) => key !== cacheName)
StaleKeys(keys) == {key \in keys : key # cacheName}

\* 31-33: what the map callback returns for a key, having called
\* caches.delete(key): its body is a block with no return statement.
MapResult(key) == "undefined"

\* What Promise.all awaits: the promises among the values it is given.
Awaited(keys) == {key \in keys : MapResult(key) = "promise"}

\* 27-34: caches.keys() resolves; a delete is requested for every stale key
\* and Promise.all is given what the map callback returned.
ActivateKeys ==
  /\ swState = "activating"
  /\ activatePc = "keys"
  /\ pendingDeletes' = pendingDeletes \cup StaleKeys(CacheNames)
  /\ activatePc' = "all"
  /\ UNCHANGED <<pageVars, precacheFailed, pushVars>>
  /\ UNCHANGED <<swState, installPc, installPromise, activatePromise, caches,
                 serverVersion, fetches>>

\* Cache Storage carries a requested delete out.
DeleteSettle(key) ==
  /\ key \in pendingDeletes
  /\ pendingDeletes' = pendingDeletes \ {key}
  /\ caches' = SelectSeq(caches, LAMBDA c : c.name # key)
  /\ UNCHANGED <<pageVars, precacheFailed, pushVars>>
  /\ UNCHANGED <<swState, installPc, installPromise, activatePc, activatePromise,
                 serverVersion, fetches>>

\* 28-36: Promise.all fulfils once every promise it awaits has settled; the
\* waitUntil promise settles with it and the worker is activated.
ActivateSettle ==
  /\ swState = "activating"
  /\ activatePc = "all"
  /\ Awaited(pendingDeletes) = {}
  /\ activatePc' = "done"
  /\ activatePromise' = "fulfilled"
  /\ swState' = "activated"
  /\ UNCHANGED <<pageVars, precacheFailed, pushVars>>
  /\ UNCHANGED <<installPc, installPromise, caches, pendingDeletes,
                 serverVersion, fetches>>

(* fetch listener, sw.js 42-48 *)

\* 42-44: a fetch event of the activated worker; caches.match is called.
FetchEvent(url) ==
  /\ swState = "activated"
  /\ Len(fetches) < MaxFetches
  /\ fetches' = Append(fetches, [request |-> url, pc |-> "match",
                                 cachedResponse |-> NoResponse,
                                 fetchCalls |-> 0,
                                 networkResponse |-> NoResponse,
                                 response |-> NoResponse])
  /\ UNCHANGED <<pageVars, precacheFailed, pushVars>>
  /\ UNCHANGED <<swState, installPc, installPromise, activatePc, activatePromise,
                 caches, pendingDeletes, serverVersion>>

\* The caches, in creation order, that hold an entry for url.
Holding(url) == SelectSeq(caches, LAMBDA c : url \in DOMAIN c.entries)

\* caches.match(request): the entry of the first cache that has one, else
\* undefined.
Match(url) ==
  IF Holding(url) = <<>> THEN NoResponse
  ELSE Response(url, Holding(url)[1].entries[url])

\* FetchMatch as network-first: fetch(event.request) is called whatever
\* caches.match resolved to.
FetchMatchNetworkFirst(i) ==
  /\ i \in 1..Len(fetches)
  /\ fetches[i].pc = "match"
  /\ fetches' = [fetches EXCEPT ![i].pc = "network",
                               ![i].cachedResponse = Match(fetches[i].request),
                               ![i].fetchCalls = @ + 1]
  /\ UNCHANGED <<pageVars, precacheFailed, pushVars>>
  /\ UNCHANGED <<swState, installPc, installPromise, activatePc, activatePromise,
                 caches, pendingDeletes, serverVersion>>

\* 44-45: caches.match resolves; cachedResponse || fetch(event.request).
FetchMatch(i) ==
  /\ i \in 1..Len(fetches)
  /\ fetches[i].pc = "match"
  /\ fetches' = IF Match(fetches[i].request) # NoResponse
                  THEN [fetches EXCEPT ![i].pc = "responded",
                                       ![i].cachedResponse = Match(fetches[i].request),
                                       ![i].response = Match(fetches[i].request)]
                  ELSE [fetches EXCEPT ![i].pc = "network",
                                       ![i].fetchCalls = @ + 1]
  /\ UNCHANGED <<pageVars, precacheFailed, pushVars>>
  /\ UNCHANGED <<swState, installPc, installPromise, activatePc, activatePromise,
                 caches, pendingDeletes, serverVersion>>

\* A fallback that writes the network response back into the current
\* cache.
FetchNetworkWriteBack(i, ok) ==
  /\ i \in 1..Len(fetches)
  /\ fetches[i].pc = "network"
  /\ fetches' = IF ok
                  THEN [fetches EXCEPT
                          ![i].pc = "responded",
                          ![i].networkResponse = Response(fetches[i].request, serverVersion),
                          ![i].response = Response(fetches[i].request, serverVersion)]
                  ELSE [fetches EXCEPT ![i].pc = "failed"]
  /\ caches' = IF ok /\ Has(cacheName)
                 THEN [caches EXCEPT ![IndexOf(cacheName)].entries =
                         [u \in DOMAIN @ \cup {fetches[i].request} |->
                            IF u = fetches[i].request THEN serverVersion ELSE @[u]]]
                 ELSE caches
  /\ UNCHANGED <<pageVars, precacheFailed, pushVars>>
  /\ UNCHANGED <<swState, installPc, installPromise, activatePc, activatePromise,
                 pendingDeletes, serverVersion>>

\* 45: the network fetch settles; its response, or its failure, is what
\* respondWith receives.
FetchNetwork(i, ok) ==
  /\ i \in 1..Len(fetches)
  /\ fetches[i].pc = "network"
  /\ fetches' = IF ok
                  THEN [fetches EXCEPT
                          ![i].pc = "responded",
                          ![i].networkResponse = Response(fetches[i].request, serverVersion),
                          ![i].response = Response(fetches[i].request, serverVersion)]
                  ELSE [fetches EXCEPT ![i].pc = "failed"]
  /\ UNCHANGED <<pageVars, precacheFailed, pushVars>>
  /\ UNCHANGED <<swState, installPc, installPromise, activatePc, activatePromise,
                 caches, pendingDeletes, serverVersion>>

(* push listener, sw.js 57-83 *)

\* e.data of a push event sent without a payload: null.
NoData == [present |-> FALSE, bytes |-> <<>>]

\* Payloads a push message may carry, as UTF-8 bytes: none at all (an empty
\* payload still gives a PushMessageData object), "hi", "2".
Payloads == {<<>>, <<104, 105>>, <<50>>}

\* e.data of the push events delivered.
PushData == {NoData} \cup [present : {TRUE}, bytes : Payloads]

\* The character a byte of the payload decodes to.
Chr(b) == CASE b = 50 -> "2" [] b = 104 -> "h" [] b = 105 -> "i"

\* PushMessageData.text(): the payload's bytes decoded to a string.
RECURSIVE Text(_)
Text(bytes) == IF bytes = <<>> THEN "" ELSE Chr(Head(bytes)) \o Text(Tail(bytes))

\* 66-81: the options object built around body.  Date.now() is read as the
\* tick of a clock that advances with every push event.
Options(body, now) ==
  [body |-> body,
   icon |-> "",
   vibrate |-> <<100, 50, 100>>,
   data |-> [dateOfArrival |-> now, primaryKey |-> "2"],
   actions |-> << [action |-> "explore", title |-> "Go to the url", icon |-> ""] >>]

\* A handler that tests the text instead of e.data: an empty payload gets
\* the fallback body.
PushEventTruthyText(data) ==
  /\ swState = "activated"
  /\ Len(pushes) < MaxPushes
  /\ pushes' = Append(pushes, data)
  /\ LET body == IF data.present /\ Text(data.bytes) # ""
                   THEN Text(data.bytes)
                   ELSE "Push message no payload"
     IN  notifications' = Append(notifications,
                                 [title |-> "This is the title",
                                  options |-> Options(body, Len(pushes) + 1),
                                  closed |-> FALSE])
  /\ UNCHANGED <<pageVars, precacheFailed, windows>>
  /\ UNCHANGED <<swState, installPc, installPromise, activatePc, activatePromise,
                 caches, pendingDeletes, serverVersion, fetches>>

\* 57-83: a push event of the activated worker.  The handler is synchronous:
\* it picks the body and calls showNotification once.
PushEvent(data) ==
  /\ swState = "activated"
  /\ Len(pushes) < MaxPushes
  /\ pushes' = Append(pushes, data)
  /\ LET body == IF data.present
                   THEN Text(data.bytes)
                   ELSE "Push message no payload"
     IN  notifications' = Append(notifications,
                                 [title |-> "This is the title",
                                  options |-> Options(body, Len(pushes) + 1),
                                  closed |-> FALSE])
  /\ UNCHANGED <<pageVars, precacheFailed, windows>>
  /\ UNCHANGED <<swState, installPc, installPromise, activatePc, activatePromise,
                 caches, pendingDeletes, serverVersion, fetches>>

(* notificationclick listener, sw.js 85-92 *)

\* 85-92: the user clicks the i-th notification, still displayed: it is
\* closed and openWindow is called with the fixed url.
NotificationClick(i) ==
  /\ i \in 1..Len(notifications)
  /\ ~notifications[i].closed
  /\ notifications' = [notifications EXCEPT ![i].closed = TRUE]
  /\ windows' = Append(windows, "https://github.com/shubhamsaxena924/")
  /\ UNCHANGED <<pageVars, precacheFailed, pushes>>
  /\ UNCHANGED <<swState, installPc, installPromise, activatePc, activatePromise,
                 caches, pendingDeletes, serverVersion, fetches>>

NextSW ==
  \/ ServerUpdate
  \/ InstallEvent
  \/ InstallOpen
  \/ \E failed \in SUBSET Range(resourcesToPrecache) : InstallAddAll(failed)
  \/ ActivateEvent
  \/ ActivateKeys
  \/ \E key \in pendingDeletes : DeleteSettle(key)
  \/ ActivateSettle
  \/ \E url \in RequestUrls : FetchEvent(url)
  \/ \E i \in 1..Len(fetches) : FetchMatch(i)
  \/ \E i \in 1..Len(fetches), ok \in BOOLEAN : FetchNetwork(i, ok)

\* Every event the worker listens to.  The network serves one version
\* throughout and the push messages carry no payload: neither bears on what
\* the listeners do to Cache Storage.
NextWorker ==
  \/ InstallEvent
  \/ InstallOpen
  \/ \E failed \in SUBSET Range(resourcesToPrecache) : InstallAddAll(failed)
  \/ ActivateEvent
  \/ ActivateKeys
  \/ \E key \in pendingDeletes : DeleteSettle(key)
  \/ ActivateSettle
  \/ \E url \in RequestUrls : FetchEvent(url)
  \/ \E i \in 1..Len(fetches) : FetchMatch(i)
  \/ \E i \in 1..Len(fetches), ok \in BOOLEAN : FetchNetwork(i, ok)
  \/ PushEvent(NoData)
  \/ \E i \in 1..Len(notifications) : NotificationClick(i)

\* The worker's push side: its lifecycle, and its push and notificationclick
\* events.
NextPush ==
  \/ InstallEvent
  \/ InstallOpen
  \/ \E failed \in SUBSET Range(resourcesToPrecache) : InstallAddAll(failed)
  \/ ActivateEvent
  \/ ActivateKeys
  \/ \E key \in pendingDeletes : DeleteSettle(key)
  \/ ActivateSettle
  \/ \E data \in PushData : PushEvent(data)
  \/ \E i \in 1..Len(notifications) : NotificationClick(i)

(* -------------------------- specifications ---------------------------- *)

vars == <<pageVars, swVars>>

\* The worker before any of its events, with an empty Cache Storage.
IdleSW ==
  /\ InitSW
  /\ caches = <<>>

\* The page before its script has run, on a platform without push support.
IdlePage ==
  /\ InitPage
  /\ supported = FALSE
  /\ registered = FALSE
  /\ activeSub = NoSub

\* The page starts before its script has run; the worker is left idle.
PageStart == InitPage /\ IdleCodec /\ IdleSW

\* The worker starts before its install event; the page is left idle.
WorkerStart == IdlePage /\ IdleCodec /\ InitSW

\* A key is given; the page and the worker are left idle.
CodecStart == IdlePage /\ IdleSW /\ InitCodec

\* The page: the script and its click handlers, against the platform.
SpecPage == PageStart /\ [][NextPage]_vars

\* The worker: its lifecycle and fetch events, against Cache Storage and
\* the network.
SpecSW == WorkerStart /\ [][NextSW]_vars

\* The worker: its lifecycle and its push and notificationclick events.
SpecPush == WorkerStart /\ [][NextPush]_vars

\* The worker: its lifecycle and its fetch, push and notificationclick events.
SpecWorker == WorkerStart /\ [][NextWorker]_vars

\* The key conversion: a byte sequence written as text and read back.
SpecCodec == CodecStart /\ [][NextCodec]_vars

(* ------------------------------ claims -------------------------------- *)

\* C1: when the promise given to waitUntil in the activate handler has
\* settled, Cache Storage holds no cache whose name differs from cacheName.
ActivationWaitsForDeletions ==
  activatePromise = "fulfilled" => CacheNames \subseteq {cacheName}

\* C2: the subscribe button is enabled only once register() has succeeded:
\* never while registration is pending, never after it has failed.
SubscribeEnabledOnlyWhenRegistered ==
  ~subscribeDisabled => regState = "ok"

\* A run of subscribeButtonHandler that has started and neither returned nor
\* failed.
SubscribeInFlight(r) ==
  runs[r].kind = "subscribe" /\ runs[r].pc \notin {"returned", "failed"}

\* C3: at most one run of subscribeButtonHandler is in flight at any time,
\* under every interleaving of subscribe, unsubscribe and notify clicks.
OneSubscribeInFlight ==
  Cardinality({r \in RunIds : SubscribeInFlight(r)}) <= 1

\* C3's case: an earlier subscribe run returned, an unsubscribe run enabled
\* the subscribe button again, and a second subscribe run is in flight.
SecondSubscribeInFlight ==
  \E r1, r2, r3 \in RunIds :
    /\ r1 < r3
    /\ runs[r1].kind = "subscribe" /\ runs[r1].pc = "returned"
    /\ runs[r2].kind = "unsubscribe" /\ runs[r2].pc = "returned"
    /\ SubscribeInFlight(r3)

\* What run r has called and done so far.
Log(r) == Range(runs[r].log)

\* The POSTs run r has issued.
PostsBy(r) == {i \in 1..Len(posts) : posts[i].run = r}

\* Run r takes a step.
Acted(r) == runs'[r] # runs[r]

\* The place of event e in a log that holds it.
IndexIn(log, e) == CHOOSE i \in 1..Len(log) : log[i] = e

Buttons == <<subscribeDisabled, unsubscribeDisabled, notifyMeDisabled>>

\* C4: a run of subscribeButtonHandler whose getSubscription resolves to an
\* existing subscription returns there: it does not call
\* pushManager.subscribe, issues no POST, leaves the subscription and the
\* subscribe button as they are, and enables notify-me and unsubscribe.
SubscribeIdempotent ==
  /\ [](\A r \in RunIds :
          (runs[r].kind = "subscribe" /\ "subscribed" \in Log(r))
            => /\ runs[r].pc = "returned"
               /\ "subscribe" \notin Log(r)
               /\ PostsBy(r) = {})
  /\ [][\A r \in RunIds :
          (At(r, "subscribe", "getSubscription") /\ activeSub # NoSub /\ Acted(r))
            => /\ runs'[r].pc = "returned"
               /\ posts' = posts
               /\ activeSub' = activeSub
               /\ subCount' = subCount
               /\ subscribeDisabled' = subscribeDisabled
               /\ ~notifyMeDisabled'
               /\ ~unsubscribeDisabled'
               /\ UNCHANGED <<regState, registered, statusMessage>>]_vars

\* C4's case: a subscribe run found an existing subscription and returned.
AlreadySubscribedRun ==
  \E r \in RunIds :
    /\ runs[r].kind = "subscribe"
    /\ "subscribed" \in Log(r)
    /\ runs[r].pc = "returned"
    /\ runs[r].held = activeSub

\* C5: a run of subscribeButtonHandler whose permission request resolves to
\* "denied" returns there: no getRegistration, getSubscription or subscribe
\* call, no POST, the notify-me and unsubscribe buttons unchanged, and the
\* subscribe button still disabled.
DeniedReturns ==
  /\ [](\A r \in RunIds :
          (runs[r].kind = "subscribe" /\ "permission:denied" \in Log(r))
            => /\ runs[r].pc = "returned"
               /\ Log(r) \cap {"getRegistration", "getSubscription", "subscribe", "POST"} = {}
               /\ PostsBy(r) = {})
  /\ [][\A r \in RunIds :
          (At(r, "subscribe", "permission") /\ Acted(r)
             /\ "permission:denied" \in Range(runs'[r].log))
            => /\ posts' = posts
               /\ UNCHANGED <<activeSub, subCount>>
               /\ UNCHANGED Buttons
               /\ subscribeDisabled']_vars

\* C5's case: a subscribe run was denied and the subscribe button is disabled.
DeniedRun ==
  \E r \in RunIds :
    /\ runs[r].kind = "subscribe"
    /\ "permission:denied" \in Log(r)
    /\ runs[r].pc = "returned"
    /\ subscribeDisabled

\* C6: a subscribe run issues at most one POST, ever, whatever becomes of it;
\* it issues none before pushManager.subscribe has resolved; once it has
\* resolved there is exactly one, to /add-subscription, carrying the
\* subscription it resolved with, issued after the resolution and after
\* notify-me was enabled; when subscribe rejects there is no POST and this
\* run has not enabled notify-me.
PostAfterSubscribe ==
  \A r \in RunIds :
    runs[r].kind = "subscribe"
      => /\ Cardinality(PostsBy(r)) <= 1
         /\ "subscribe:resolved" \notin Log(r) => PostsBy(r) = {}
         /\ "subscribe:resolved" \in Log(r)
              => /\ runs[r].held # NoSub
                 /\ \E i \in PostsBy(r) :
                      /\ posts[i].url = BASE_URL \o "/add-subscription"
                      /\ posts[i].body = <<<<"endpoint", PushSubscription(runs[r].held).endpoint>>,
                                           <<"keys", PushSubscription(runs[r].held).keys>>>>
                 /\ IndexIn(runs[r].log, "subscribe") < IndexIn(runs[r].log, "subscribe:resolved")
                 /\ IndexIn(runs[r].log, "subscribe:resolved") < IndexIn(runs[r].log, "notifyMe.enable")
                 /\ IndexIn(runs[r].log, "notifyMe.enable") < IndexIn(runs[r].log, "POST")
         /\ "subscribe:rejected" \in Log(r)
              => /\ runs[r].pc = "failed"
                 /\ "notifyMe.enable" \notin Log(r)

\* C6's case: a subscribe run created a subscription, posted it, and the
\* POST has failed without being issued again.
PostedOnce ==
  \E r \in RunIds :
    /\ runs[r].kind = "subscribe"
    /\ "subscribe:resolved" \in Log(r)
    /\ runs[r].pc = "returned"
    /\ \E i \in PostsBy(r) : posts[i].state = "failed"

\* C7: when subscription.unsubscribe() settles, the POST to
\* /remove-subscription has been issued; the buttons are set to unsubscribe
\* disabled, subscribe enabled, notify-me disabled when it resolved to true,
\* and are left as they are when it resolved to false or rejected.
UnsubscribeResets ==
  [][\A r \in RunIds :
       (At(r, "unsubscribe", "unsubscribe") /\ Acted(r))
         => /\ \E i \in PostsBy(r) : posts[i].url = BASE_URL \o "/remove-subscription"
            /\ posts' = posts
            /\ IF "unsubscribe:true" \in Range(runs'[r].log)
                 THEN unsubscribeDisabled' /\ ~subscribeDisabled' /\ notifyMeDisabled'
                 ELSE UNCHANGED Buttons]_vars

\* C7's case: one unsubscribe run was answered true and reset the buttons,
\* an overlapping one was answered false, and the buttons are not at their
\* defaults, a later subscribe run having created a new subscription.
UnsubscribedTrueAndFalse ==
  \E r1, r2, r3 \in RunIds :
    /\ "unsubscribe:true" \in Log(r1)
    /\ "unsubscribe:false" \in Log(r2)
    /\ "subscribe:resolved" \in Log(r3)
    /\ subscribeDisabled /\ ~notifyMeDisabled

\* C8: when getSubscription resolves to null in the unsubscribe handler or in
\* the notify-me handler, the run fails there: no POST is issued, unsubscribe
\* is not called, and no button changes.
NullSubscriptionFails ==
  /\ [](\A r \in RunIds :
          (/\ runs[r].kind \in {"unsubscribe", "notifyMe"}
           /\ runs[r].pc = "failed"
           /\ "getSubscription" \in Log(r)
           /\ "TypeError" \in Log(r))
            => /\ PostsBy(r) = {}
               /\ Log(r) \cap {"POST", "unsubscribe"} = {})
  /\ [][\A r \in RunIds :
          (/\ runs[r].kind \in {"unsubscribe", "notifyMe"}
           /\ runs[r].pc = "getSubscription"
           /\ activeSub = NoSub
           /\ Acted(r))
            => /\ runs'[r].pc = "failed"
               /\ posts' = posts
               /\ UNCHANGED Buttons
               /\ UNCHANGED <<activeSub, subCount>>]_vars

\* C8's case: an unsubscribe run found no subscription and failed.
UnsubscribeFoundNull ==
  \E r \in RunIds :
    /\ runs[r].kind = "unsubscribe"
    /\ runs[r].pc = "failed"
    /\ "getSubscription" \in Log(r)
    /\ activeSub = NoSub

\* Cache Storage holds an entry matching the request.
Cached(url) == \E i \in 1..Len(caches) : url \in DOMAIN caches[i].entries

\* The entries Cache Storage holds for the request.
CachedResponses(url) ==
  {Response(url, caches[i].entries[url]) :
     i \in {j \in 1..Len(caches) : url \in DOMAIN caches[j].entries}}

\* C9: when caches.match resolves for a fetch event, a request that Cache
\* Storage has an entry for is answered with that entry and no network
\* fetch; any other request causes one network fetch, and when the network
\* answers, its response is the response given, unmodified.
CacheFirst ==
  /\ [](\A i \in 1..Len(fetches) :
          /\ fetches[i].fetchCalls <= 1
          /\ fetches[i].cachedResponse # NoResponse
               => /\ fetches[i].pc = "responded"
                  /\ fetches[i].response = fetches[i].cachedResponse
                  /\ fetches[i].fetchCalls = 0
          /\ (fetches[i].pc = "responded" /\ fetches[i].cachedResponse = NoResponse)
               => /\ fetches[i].fetchCalls = 1
                  /\ fetches[i].networkResponse # NoResponse
                  /\ fetches[i].response = fetches[i].networkResponse
                  /\ fetches[i].response.url = fetches[i].request
          /\ fetches[i].pc = "failed"
               => fetches[i].fetchCalls = 1 /\ fetches[i].response = NoResponse)
  /\ [][\A i \in 1..Len(fetches) :
          (fetches[i].pc = "match" /\ fetches'[i].pc # "match")
            => IF Cached(fetches[i].request)
                 THEN /\ fetches'[i].pc = "responded"
                      /\ fetches'[i].response \in CachedResponses(fetches[i].request)
                      /\ fetches'[i].fetchCalls = 0
                 ELSE /\ fetches'[i].pc = "network"
                      /\ fetches'[i].fetchCalls = 1]_vars

\* C9's case: one fetch event was answered from a cache whose entry is older
\* than what the server serves, another from the network.
HitAndMiss ==
  \E i, j \in 1..Len(fetches) :
    /\ fetches[i].pc = "responded"
    /\ fetches[i].cachedResponse # NoResponse
    /\ fetches[i].response.body < serverVersion
    /\ fetches[j].pc = "responded"
    /\ fetches[j].cachedResponse = NoResponse

\* The entries of the current generation's cache for resources that are not
\* in the precache list.
Unlisted ==
  IF Has(cacheName)
    THEN {u \in DOMAIN Entries(cacheName) : u \notin Range(resourcesToPrecache)}
    ELSE {}

\* C10 as stated: after a successful install the current generation's cache
\* holds exactly the resources of the precache list, whatever was there before.
InstallExactlyListed ==
  installPromise = "fulfilled"
    => Has(cacheName) /\ DOMAIN Entries(cacheName) = Range(resourcesToPrecache)

\* C10, amended: after a successful install the current generation's cache
\* holds every resource of the precache list, as fetched during the install;
\* its entries for other resources are those a cache of the same name held
\* before the install, which no step adds to or removes.
InstallAddsListed ==
  /\ [](installPromise = "fulfilled"
          => /\ Has(cacheName)
             /\ \A u \in Range(resourcesToPrecache) :
                  /\ u \in DOMAIN Entries(cacheName)
                  /\ Entries(cacheName)[u] \in 1..serverVersion)
  /\ [][Unlisted' = Unlisted]_vars

\* C10's case: an install succeeded over a cache of the same name that held
\* a resource which is not in the precache list.
InstalledOverSameTag ==
  /\ installPromise = "fulfilled"
  /\ Unlisted # {}

\* C11: install is all-or-nothing.  If the fetch of any listed resource
\* fails inside addAll, the promise given to waitUntil is rejected and the
\* worker is discarded without ever activating; opening the cache changed no
\* cache that existed and created at most an empty one; and the step in which
\* addAll settles, like every step after it, leaves Cache Storage as it is:
\* no listed resource is added and every earlier generation stays intact.
InstallAllOrNothing ==
  /\ [](installPc = "done" =>
          /\ (precacheFailed # {}) = (installPromise = "rejected")
          /\ (precacheFailed = {}) = (installPromise = "fulfilled"))
  /\ [](precacheFailed # {} =>
          /\ swState = "redundant"
          /\ activatePromise = "none"
          /\ pendingDeletes = {})
  /\ [][swState = "installing" /\ installPc = "open" =>
          /\ Len(caches') >= Len(caches)
          /\ \A i \in 1..Len(caches) : caches'[i] = caches[i]
          /\ \A i \in (Len(caches) + 1)..Len(caches') :
                DOMAIN caches'[i].entries = {}]_vars
  /\ [][precacheFailed' # {} => caches' = caches]_vars

\* An install whose addAll failed on some resources and fetched others, over a
\* Cache Storage holding an earlier generation with entries and a cache of
\* the current tag.
InstallFailedPartly ==
  /\ installPromise = "rejected"
  /\ precacheFailed # {}
  /\ precacheFailed # Range(resourcesToPrecache)
  /\ Has(cacheName)
  /\ \E i \in 1..Len(caches) :
       caches[i].name # cacheName /\ DOMAIN caches[i].entries # {}

\* C12: every push event has caused exactly one showNotification request.
\* Its body is the event's data read as text when the event carries data,
\* an empty payload included, and "Push message no payload" when it carries
\* none; title, vibration pattern, primaryKey and action are the same fixed
\* values in both cases.
OneNotificationPerPush ==
  /\ Len(notifications) = Len(pushes)
  /\ \A i \in 1..Len(pushes) :
       LET n == notifications[i]
       IN  /\ n.options.body = IF pushes[i] = NoData
                                  THEN "Push message no payload"
                                  ELSE Text(pushes[i].bytes)
           /\ pushes[i].bytes = <<104, 105>> => n.options.body = "hi"
           /\ pushes[i].present /\ pushes[i].bytes = <<>> => n.options.body = ""
           /\ n.title = "This is the title"
           /\ n.options.vibrate = <<100, 50, 100>>
           /\ n.options.data.primaryKey = "2"
           /\ n.options.actions = << [action |-> "explore",
                                      title |-> "Go to the url", icon |-> ""] >>

\* Two push events, one without data and one with an empty payload, each
\* with its notification requested.
PushedWithAndWithoutData ==
  /\ Len(notifications) = 2
  /\ \E i, j \in 1..Len(pushes) :
       /\ pushes[i] = NoData
       /\ notifications[i].options.body = "Push message no payload"
       /\ pushes[j].present
       /\ pushes[j].bytes = <<>>
       /\ notifications[j].options.body = ""

\* In this step the POST of notify-all run r resolves with status 409.
Resolves409(r) ==
  /\ runs[r].kind = "notifyAll"
  /\ runs[r].pc = "fetch"
  /\ "status:409" \in Range(runs'[r].log)

\* C13: the status message is set to the no-recipients text in exactly the
\* steps in which the POST of a notify-all click resolves with status 409;
\* every other step, a POST resolving with another status or rejecting
\* included, leaves the text as it is, so a later success does not clear a
\* message an earlier 409 has set.
MessageOnlyOn409 ==
  [][/\ \A r \in RunIds : Resolves409(r) => statusMessage' = NoRecipientsMessage
     /\ (\A r \in RunIds : ~Resolves409(r)) => statusMessage' = statusMessage]_vars

\* A notify-all click answered 409 and a later click answered 200, both
\* handled, with the message of the 409 still shown.
MessageKeptAfterSuccess ==
  /\ statusMessage = NoRecipientsMessage
  /\ \E r1, r2 \in RunIds :
       /\ r1 < r2
       /\ runs[r1].kind = "notifyAll" /\ runs[r1].pc = "returned"
       /\ runs[r2].kind = "notifyAll" /\ runs[r2].pc = "returned"
       /\ "status:409" \in Log(r1)
       /\ "status:200" \in Log(r2)

\* C14: for every byte sequence of up to MaxLen bytes, urlB64ToUint8Array
\* applied to its unpadded URL-safe base64 text does not throw and returns
\* the original byte sequence, of equal length.
Base64RoundTrip ==
  codecPc \in {"decoded", "threw"} =>
    /\ codecPc = "decoded"
    /\ Len(outputArray) = Len(keyBytes)
    /\ outputArray = keyBytes

\* A key read back whose text needed padding and held both URL-safe
\* characters.
RoundTripWithUrlCharacters ==
  /\ codecPc = "decoded"
  /\ Len(keyBytes) > 0
  /\ Len(base64String) % 4 # 0
  /\ "-" \in Range(base64String)
  /\ "_" \in Range(base64String)
  /\ outputArray = keyBytes

\* The worker is inside its install handler: from the install event until
\* the promise given to waitUntil has settled.
Installing == swState = "installing"

\* C15: the cache of the current generation is written only by install.  A
\* step taken outside the install handler (an activate, fetch, push or
\* notificationclick event, or a callback of one) does not create the cache
\* and, where it exists, leaves it in Cache Storage with its entries
\* unchanged; a cache miss answered by the network writes nothing back.
OnlyInstallWritesCache ==
  [][~Installing =>
       /\ Has(cacheName)' = Has(cacheName)
       /\ Has(cacheName) => Entries(cacheName)' = Entries(cacheName)]_vars

\* After activation with older generations deleted: a miss answered by the
\* network with its url still absent from the current cache, a push shown
\* and a notification clicked.
MissNotWrittenBack ==
  /\ Has(cacheName)
  /\ activatePromise = "fulfilled"
  /\ \E i \in 1..Len(fetches) :
       /\ fetches[i].pc = "responded"
       /\ fetches[i].fetchCalls = 1
       /\ fetches[i].request \notin DOMAIN Entries(cacheName)
  /\ notifications # <<>>
  /\ windows # <<>>

\* C16: a run of subscribeButtonHandler calls pushManager.subscribe, and
\* posts to /add-subscription, only if its permission request resolved to
\* "granted": after "denied" and after "default" alike it does neither.
SubscribeOnlyWhenGranted ==
  \A r \in RunIds :
    runs[r].kind = "subscribe" /\ "permission:granted" \notin Log(r) =>
      /\ "subscribe" \notin Log(r)
      /\ PostsBy(r) = {}

\* C17: a run of subscribeButtonHandler that has returned holding the
\* subscription that is active, found or newly created, has left the
\* unsubscribe button enabled.
UnsubscribeEnabledAfterSubscribe ==
  \A r \in RunIds :
    /\ runs[r].kind = "subscribe"
    /\ runs[r].pc = "returned"
    /\ runs[r].held # NoSub
    /\ runs[r].held = activeSub
    => ~unsubscribeDisabled

\* No run of the subscribe or of the unsubscribe handler is in flight.
Quiescent ==
  \A r \in RunIds :
    runs[r].kind \in {"subscribe", "unsubscribe"} => runs[r].pc \in {"returned", "failed"}

\* C18: in every quiescent state an enabled notify-me button implies an
\* active push subscription, whatever the interleaving of the handler runs
\* at their awaits.
NotifyMeImpliesSubscription ==
  Quiescent /\ ~notifyMeDisabled => activeSub # NoSub

\* The race run to its end: of two overlapping unsubscribe runs one was
\* answered true and the other false for the subscription it still held, a
\* subscribe run clicked after both has created the subscription now active,
\* no handler run is in flight and the notify-me button is enabled.
QuiescentAfterUnsubscribeRace ==
  /\ Quiescent
  /\ ~notifyMeDisabled
  /\ activeSub # NoSub
  /\ \E r1, r2, r3 \in RunIds :
       /\ r1 < r3 /\ r2 < r3
       /\ "unsubscribe:true" \in Log(r1)
       /\ "unsubscribe:false" \in Log(r2)
       /\ runs[r2].held # NoSub
       /\ "subscribe:resolved" \in Log(r3)
       /\ runs[r3].held = activeSub

====
